---- MODULE Spec2Model ----
(***************************************************************************)
(* Model of src/Main.py: the move_package handler (Registry + Ledger       *)
(* transaction, broadcast to websocket observers, METRC sync with the      *)
(* pending_metrc_sync.json retry file) running on one asyncio event loop.  *)
(* A coroutine runs without interruption between two awaits; the only     *)
(* await inside move_package is client.send_json in broadcast.             *)
(* requests.post in sync_with_metrc is a blocking call on the loop thread. *)
(***************************************************************************)
EXTENDS Integers, Sequences, FiniteSets, TLC

\* ---- bounds of the model ----
MaxCalls == 2
MaxClients == 2
MaxTime == 1

Calls == 1..MaxCalls
Clients == 1..MaxClients

\* ---- input domains ----
KnownTags == {"T1"}
TagInputs == {"T1", "T9"}
FromInputs == {"VegRoom", "FlowerRoom"}
ToInputs == {"VegRoom", "FlowerRoom", ""}
FailPoints == {"none", "update", "insert", "commit"}
Responses == {"200", "non200", "exception"}

NoData == [tag_id |-> "", from_location |-> "", to_location |-> ""]
NoResult == [status |-> 0, kind |-> "none"]
NoIter == [todo |-> {}, size |-> 0, cur |-> 0, start |-> {}, sent |-> {}]

VARIABLES
    packages,           \* table packages: tag_id -> row
    movements,          \* table movements: sequence of rows, id = position
    connected_clients,  \* the global set of websockets
    ws,                 \* per websocket: "new", "open", "closed", "gone"
    pending_metrc_sync, \* lines of pending_metrc_sync.json
    posted,             \* the requests.post calls made so far, each with the
                        \* id of the row it was made for
    credentials,        \* METRC_API_KEY and FACILITY_LICENSE both non-empty
    now,                \* datetime.now()
    pc,                 \* per call: "idle", "received", "sending", "posting", "done"
    data,               \* per call: the request body
    timestamp,          \* per call: the local variable timestamp
    iter,               \* per call: the set iterator of broadcast (local), with
                        \* the set at its start and the clients served so far
    result,             \* per call: what the caller is told
    rec,                \* per call: id of the row it committed, 0 if none
    response,           \* per call: how requests.post ended, "none" before
    raceRec             \* per received call: -1, or what a concurrent call with
                        \* the same tag_id and from_location did when it found
                        \* the unit there: 0 no commit, else the id it committed

vars == <<packages, movements, connected_clients, ws, pending_metrc_sync, posted,
          credentials, now, pc, data, timestamp, iter, result, rec, response, raceRec>>

dbVars == <<packages, movements>>
wsVars == <<connected_clients, ws>>
locals == <<data, timestamp, iter>>

\* ---- init_db and provisioning ----
InitialLocation == "VegRoom"

Init ==
    /\ packages = [t \in KnownTags |->
                     [location |-> InitialLocation, last_updated |-> 0, status |-> "New"]]
    /\ movements = << >>
    /\ connected_clients = {}
    /\ ws = [w \in Clients |-> "new"]
    /\ pending_metrc_sync = << >>
    /\ posted = << >>
    /\ credentials \in BOOLEAN
    /\ now = 0
    /\ pc = [c \in Calls |-> "idle"]
    /\ data = [c \in Calls |-> NoData]
    /\ timestamp = [c \in Calls |-> 0]
    /\ iter = [c \in Calls |-> NoIter]
    /\ result = [c \in Calls |-> NoResult]
    /\ rec = [c \in Calls |-> 0]
    /\ response = [c \in Calls |-> "none"]
    /\ raceRec = [c \in Calls |-> -1]

\* requests.post blocks the event loop thread until it returns
LoopFree == \A c \in Calls : pc[c] # "posting"

\* ---- move_package: pure parts ----

Missing_TagOnly(d) == d.tag_id = ""

\* line 68: if not tag_id or not from_location or not to_location
Missing(d) == d.tag_id = "" \/ d.from_location = "" \/ d.to_location = ""

\* lines 76-78: SELECT location FROM packages WHERE tag_id = ?
Found(pk, tag) == tag \in DOMAIN pk

SelectLocation(pk, tag) == IF Found(pk, tag) THEN pk[tag].location ELSE ""

LocationMatches_Always(stored, from) == TRUE

LocationMatches_Present(stored, from) == stored # "" /\ from # ""

\* line 80: result[0] != from_location raises
LocationMatches(stored, from) == stored = from

\* lines 109-111: every exception raised inside the try block, HTTPException
\* included, is caught and re-raised as HTTPException(500)
Reported(raised, insideTry) == IF insideTry THEN 500 ELSE raised

TxUpdate_KeepsLocation(pk, tag, to, t) ==
    [pk EXCEPT ![tag] = [location |-> pk[tag].location, last_updated |-> t,
                         status |-> "Active"]]

\* lines 85-86: UPDATE packages SET location, last_updated, status
TxUpdate(pk, tag, to, t) ==
    [pk EXCEPT ![tag] = [location |-> to, last_updated |-> t, status |-> "Active"]]

TxInsert_Swapped(mv, tag, from, to, t) ==
    Append(mv, [id |-> Len(mv) + 1, tag_id |-> tag, from_location |-> to,
                to_location |-> from, timestamp |-> t, metrc_synced |-> FALSE])

\* lines 89-90: INSERT INTO movements, id INTEGER PRIMARY KEY AUTOINCREMENT
TxInsert(mv, tag, from, to, t) ==
    Append(mv, [id |-> Len(mv) + 1, tag_id |-> tag, from_location |-> from,
                to_location |-> to, timestamp |-> t, metrc_synced |-> FALSE])

AfterClose_Autocommit(committed, before, working) == working

\* lines 92, 112-113: conn.commit() makes the transaction visible,
\* conn.close() without commit discards it
AfterClose(committed, before, working) == IF committed THEN working ELSE before

\* lines 109-111: the storage failures, by whether the UPDATE had been issued
StorageKind(f) == IF f = "update" THEN "storage" ELSE "rollback"

\* ---- sync_with_metrc: pure parts ----

\* lines 119-124: payload
Payload(tag, room, t) ==
    [shape |-> "payload", label |-> tag, room |-> room, time |-> t]

\* lines 118-126: the request handed to requests.post, with the id of the
\* row it is made for
PostEntry(id, tag, room, t) == [rec |-> id, label |-> tag, room |-> room, time |-> t]

\* line 145: the dict written by the except branch
ErrorEntry(tag, room, t) ==
    [shape |-> "error", label |-> tag, room |-> room, time |-> t]

MarkSynced_Only(mv, tag, t) ==
    [i \in 1..Len(mv) |->
        [mv[i] EXCEPT !.metrc_synced = (mv[i].tag_id = tag /\ mv[i].timestamp = t)]]

\* lines 131-132: UPDATE movements SET metrc_synced WHERE tag_id = ? AND timestamp = ?
MarkSynced(mv, tag, t) ==
    [i \in 1..Len(mv) |->
        IF mv[i].tag_id = tag /\ mv[i].timestamp = t
        THEN [mv[i] EXCEPT !.metrc_synced = TRUE]
        ELSE mv[i]]

QueueAfter_DropsRejected(q, r, dbok, tag, room, t) ==
    IF r = "200" /\ dbok THEN q
    ELSE IF r = "non200" THEN q
    ELSE Append(q, ErrorEntry(tag, room, t))

\* lines 136-146: what is appended to pending_metrc_sync.json
QueueAfter(q, r, dbok, tag, room, t) ==
    IF r = "200" /\ dbok THEN q
    ELSE IF r = "non200" THEN Append(q, Payload(tag, room, t))
    ELSE Append(q, ErrorEntry(tag, room, t))

\* lines 128-134: the movements table after the response
SyncedAfter(mv, r, dbok, tag, t) ==
    IF r = "200" /\ dbok THEN MarkSynced(mv, tag, t) ELSE mv

\* ---- broadcast ----

\* line 104: if METRC_API_KEY and FACILITY_LICENSE
SyncEnabled(cred) == cred

\* line 58: the set iterator raises RuntimeError when the set changed size
SizeChanged(it, clients) == Cardinality(clients) # it.size

\* the handler of call c ends: its timestamp and iterator are gone, the
\* caller has the answer to the request it sent
Return(c, status, kind) ==
    /\ pc' = [pc EXCEPT ![c] = "done"]
    /\ result' = [result EXCEPT ![c] = [status |-> status, kind |-> kind]]
    /\ data' = data
    /\ timestamp' = [timestamp EXCEPT ![c] = 0]
    /\ iter' = [iter EXCEPT ![c] = NoIter]

\* lines 58-59 and 103-107: advance the iterator of call c, whose locals are
\* d and t; either raise, suspend in send_json to the next client, or leave
\* the loop and go on to the sync step (line 126 starts the request) or the return; id is the row
\* the call committed
Iterate(c, it, d, t, id) ==
    IF SizeChanged(it, connected_clients)
    THEN Return(c, Reported(500, TRUE), "setchanged") /\ posted' = posted
    ELSE IF it.todo \cap connected_clients # {}
    THEN \E w \in it.todo \cap connected_clients :
            /\ pc' = [pc EXCEPT ![c] = "sending"]
            /\ iter' = [iter EXCEPT ![c] = [it EXCEPT !.todo = @ \ {w}, !.cur = w]]
            /\ data' = [data EXCEPT ![c] = d]
            /\ timestamp' = [timestamp EXCEPT ![c] = t]
            /\ result' = result
            /\ posted' = posted
    ELSE IF SyncEnabled(credentials)
    THEN /\ pc' = [pc EXCEPT ![c] = "posting"]
         /\ iter' = [iter EXCEPT ![c] = NoIter]
         /\ data' = [data EXCEPT ![c] = d]
         /\ timestamp' = [timestamp EXCEPT ![c] = t]
         /\ result' = result
         /\ posted' = Append(posted, PostEntry(id, d.tag_id, d.to_location, t))
    ELSE Return(c, 200, "ok") /\ posted' = posted

\* ---- actions ----

\* lines 62-66: a request arrives and its handler is scheduled
Request(c, d) ==
    /\ LoopFree
    /\ pc[c] = "idle"
    /\ \A k \in Calls : k < c => pc[k] # "idle"
    /\ pc' = [pc EXCEPT ![c] = "received"]
    /\ data' = [data EXCEPT ![c] = d]
    /\ UNCHANGED <<dbVars, wsVars, pending_metrc_sync, posted, credentials, now,
                   timestamp, iter, result, rec, response, raceRec>>

\* the calls that wait with the same tag_id and from_location as d while a
\* call carrying d finds the unit at that from_location
Racing(c, d) ==
    {k \in Calls \ {c} : /\ pc[k] = "received"
                         /\ data[k].tag_id = d.tag_id
                         /\ data[k].from_location = d.from_location}

\* lines 63-101: move_package from its start to its first await (or its end);
\* f is the statement of the transaction at which the storage fails
move_package(c, f) ==
    /\ LoopFree
    /\ pc[c] = "received"
    /\ LET d == data[c]
           stored == SelectLocation(packages, d.tag_id)
       IN
       IF Missing(d)
       THEN /\ f = "none"
            /\ Return(c, Reported(400, FALSE), "missing")
            /\ posted' = posted
            /\ raceRec' = [raceRec EXCEPT ![c] = -1]
            /\ UNCHANGED <<dbVars, rec>>
       ELSE IF ~Found(packages, d.tag_id)
       THEN /\ f = "none"
            /\ Return(c, Reported(404, TRUE), "notfound")
            /\ posted' = posted
            /\ raceRec' = [raceRec EXCEPT ![c] = -1]
            /\ UNCHANGED <<dbVars, rec>>
       ELSE IF ~LocationMatches(stored, d.from_location)
       THEN /\ f = "none"
            /\ Return(c, Reported(400, TRUE), "mismatch")
            /\ posted' = posted
            /\ raceRec' = [raceRec EXCEPT ![c] = -1]
            /\ UNCHANGED <<dbVars, rec>>
       ELSE LET t == now
                pk1 == IF f = "update" THEN packages
                       ELSE TxUpdate(packages, d.tag_id, d.to_location, t)
                mv1 == IF f \in {"update", "insert"} THEN movements
                       ELSE TxInsert(movements, d.tag_id, d.from_location,
                                     d.to_location, t)
                committed == f = "none"
            IN  /\ packages' = AfterClose(committed, packages, pk1)
                /\ movements' = AfterClose(committed, movements, mv1)
                /\ raceRec' = [k \in Calls |->
                                 IF k = c THEN -1
                                 ELSE IF k \in Racing(c, d)
                                 THEN (IF committed /\ raceRec[k] <= 0 THEN Len(mv1)
                                       ELSE IF raceRec[k] = -1 THEN 0
                                       ELSE raceRec[k])
                                 ELSE raceRec[k]]
                /\ IF committed
                   THEN /\ rec' = [rec EXCEPT ![c] = Len(mv1)]
                        /\ Iterate(c, [todo |-> connected_clients,
                                       size |-> Cardinality(connected_clients),
                                       cur |-> 0, start |-> connected_clients,
                                       sent |-> {}], d, t, Len(mv1))
                   ELSE /\ Return(c, Reported(500, TRUE), StorageKind(f))
                        /\ posted' = posted
                        /\ UNCHANGED rec
    /\ UNCHANGED <<wsVars, pending_metrc_sync, credentials, now, response>>

\* line 59: await client.send_json(data) completes
send_json_done(c) ==
    /\ LoopFree
    /\ pc[c] = "sending"
    /\ ws[iter[c].cur] = "open"
    /\ Iterate(c, [iter[c] EXCEPT !.sent = @ \cup {iter[c].cur}],
               data[c], timestamp[c], rec[c])
    /\ UNCHANGED <<dbVars, wsVars, pending_metrc_sync, credentials, now, rec, response, raceRec>>

\* line 59: await client.send_json(data) raises on a closed websocket
send_json_raise(c) ==
    /\ LoopFree
    /\ pc[c] = "sending"
    /\ ws[iter[c].cur] # "open"
    /\ Return(c, Reported(500, TRUE), "send")
    /\ UNCHANGED <<dbVars, wsVars, pending_metrc_sync, posted, credentials, now, rec, response, raceRec>>

\* lines 126-146 and 107: requests.post returns r (or raises), the rest of
\* sync_with_metrc runs, and move_package returns
sync_with_metrc(c, r, dbok) ==
    /\ pc[c] = "posting"
    /\ r = "200" \/ dbok
    /\ movements' = SyncedAfter(movements, r, dbok, data[c].tag_id, timestamp[c])
    /\ pending_metrc_sync' = QueueAfter(pending_metrc_sync, r, dbok, data[c].tag_id,
                                        data[c].to_location, timestamp[c])
    /\ response' = [response EXCEPT ![c] = r]
    /\ Return(c, 200, "ok")
    /\ UNCHANGED <<packages, wsVars, posted, credentials, now, rec, raceRec>>

\* lines 48-50: accept and connected_clients.add; the new entry lands before
\* or after the position of each iterator that is suspended
websocket_accept(w) ==
    /\ LoopFree
    /\ ws[w] = "new"
    /\ ws' = [ws EXCEPT ![w] = "open"]
    /\ connected_clients' = connected_clients \cup {w}
    /\ \E S \in SUBSET {c \in Calls : pc[c] = "sending"} :
          iter' = [c \in Calls |->
                     IF c \in S THEN [iter[c] EXCEPT !.todo = @ \cup {w}] ELSE iter[c]]
    /\ UNCHANGED <<dbVars, pending_metrc_sync, posted, credentials, now, pc, data,
                   timestamp, result, rec, response, raceRec>>

\* the peer goes away; receive_text (line 53) will raise
websocket_close(w) ==
    /\ ws[w] = "open"
    /\ ws' = [ws EXCEPT ![w] = "closed"]
    /\ UNCHANGED <<dbVars, connected_clients, pending_metrc_sync, posted, credentials,
                   now, pc, locals, result, rec, response, raceRec>>

\* lines 54-55: except: connected_clients.remove(websocket)
websocket_remove(w) ==
    /\ LoopFree
    /\ ws[w] = "closed"
    /\ ws' = [ws EXCEPT ![w] = "gone"]
    /\ connected_clients' = connected_clients \ {w}
    /\ UNCHANGED <<dbVars, pending_metrc_sync, posted, credentials, now, pc, locals,
                   result, rec, response, raceRec>>

\* line 84: datetime.now() advances
Tick ==
    /\ now < MaxTime
    /\ now' = now + 1
    /\ UNCHANGED <<dbVars, wsVars, pending_metrc_sync, posted, credentials, pc, locals,
                   result, rec, response, raceRec>>

Inputs == [tag_id : TagInputs, from_location : FromInputs, to_location : ToInputs]

Next ==
    \/ \E c \in Calls, d \in Inputs : Request(c, d)
    \/ \E c \in Calls, f \in FailPoints : move_package(c, f)
    \/ \E c \in Calls : send_json_done(c)
    \/ \E c \in Calls : send_json_raise(c)
    \/ \E c \in Calls, r \in Responses, dbok \in BOOLEAN : sync_with_metrc(c, r, dbok)
    \/ \E w \in Clients : websocket_accept(w)
    \/ \E w \in Clients : websocket_close(w)
    \/ \E w \in Clients : websocket_remove(w)
    \/ Tick

Spec == Init /\ [][Next]_vars

\* the scheduling of the event loop: a handler that can run does run, and a
\* send on a closed websocket raises; nothing makes the external ledger
\* answer (requests.post has no timeout) or an observer take delivery
LiveSpec ==
    /\ Spec
    /\ \A c \in Calls : WF_vars(\E f \in FailPoints : move_package(c, f))
    /\ \A c \in Calls : WF_vars(send_json_raise(c))
    /\ \A w \in Clients : WF_vars(websocket_remove(w))

\* ---- helpers of the properties ----

RowsOf(tag) == {i \in 1..Len(movements) : movements[i].tag_id = tag}

Max(S) == CHOOSE m \in S : \A n \in S : n <= m

\* call c runs move_package up to its first await in this step
Runs(c) == pc[c] = "received" /\ pc'[c] # "received"

Queued(tag, room, t) ==
    \E i \in 1..Len(pending_metrc_sync) :
        /\ pending_metrc_sync[i].label = tag
        /\ pending_metrc_sync[i].room = room
        /\ pending_metrc_sync[i].time = t

\* ---- C1 ----
\* C1: for every unit that has a committed MovementRecord, the Registry
\* location equals the to_location of the unit's record with the highest id.
C1_LocationIsLastTo ==
    \A tag \in DOMAIN packages :
        RowsOf(tag) # {} =>
            packages[tag].location = movements[Max(RowsOf(tag))].to_location

C1_Witness ==
    /\ Len(movements) >= 2
    /\ movements[1].tag_id = movements[2].tag_id
    /\ movements[1].to_location # movements[2].to_location
    /\ \E c \in Calls : pc[c] = "sending"

\* ---- C2 ----
\* C2: a move_package call whose from_location differs from the unit's
\* Registry location fails and changes nothing: Registry and Ledger are
\* unchanged, nothing is sent to an observer, no submission is started and
\* the retry queue is unchanged.
C2_MismatchHasNoEffect ==
    [][\A c \in Calls :
          (/\ Runs(c)
           /\ data[c].tag_id \in DOMAIN packages
           /\ packages[data[c].tag_id].location # data[c].from_location)
          => /\ pc'[c] = "done"
             /\ result'[c].status \notin {0, 200}
             /\ rec'[c] = 0
             /\ packages' = packages
             /\ movements' = movements
             /\ pending_metrc_sync' = pending_metrc_sync
             /\ iter' = iter
             /\ response' = response]_vars

C2_Witness ==
    \E c \in Calls :
        /\ result[c].kind = "mismatch"
        /\ credentials
        /\ \E w \in connected_clients : ws[w] = "open"

\* ---- C3 ----
\* C3 (as claimed): when a call with a non-empty to_location runs after a
\* concurrent call with the same tag_id and from_location found the unit at
\* that location and committed its move, this one fails with the location
\* mismatch and commits nothing, so that exactly one of the two commits.
C3_ExactlyOneOfTwo ==
    [][\A c \in Calls :
          (Runs(c) /\ raceRec[c] > 0 /\ data[c].to_location # "")
          => /\ rec'[c] = 0
             /\ result'[c].kind = "mismatch"]_vars

\* the rows from id first on move the unit of tag away from loc
MovedAway(first, tag, loc) ==
    \A i \in first..Len(movements) :
        movements[i].tag_id = tag => movements[i].to_location # loc

\* C3 (amended): when a call with a non-empty to_location runs after a
\* concurrent call with the same tag_id and from_location committed a move
\* out of that location, and no move committed since has put the unit back
\* there, it fails with the location mismatch and commits nothing.
C3_LoserFailsUnlessMovedBack ==
    [][\A c \in Calls :
          (/\ Runs(c)
           /\ raceRec[c] > 0
           /\ data[c].to_location # ""
           /\ MovedAway(raceRec[c], data[c].tag_id, data[c].from_location))
          => /\ rec'[c] = 0
             /\ result'[c].kind = "mismatch"
             /\ result'[c].status # 200
             /\ packages' = packages
             /\ movements' = movements]_vars

C3_Witness ==
    \E c, k \in Calls :
        /\ c # k
        /\ rec[c] > 0
        /\ movements[rec[c]].to_location # movements[rec[c]].from_location
        /\ pc[c] = "sending"
        /\ pc[k] = "received"
        /\ raceRec[k] = rec[c]

\* ---- C4 ----
\* C4: a finished call either reports success and has committed its record,
\* or reports failure and has committed nothing.
C4_AllOrNothing ==
    \A c \in Calls :
        pc[c] = "done" =>
            \/ result[c].status = 200 /\ rec[c] > 0
            \/ result[c].status # 200 /\ rec[c] = 0

\* ---- C5 ----
\* C5: once the call that committed a record has finished, the record is
\* marked synced or an entry for it is in the retry queue.
C5_NeverLost ==
    \A c \in Calls :
        (pc[c] = "done" /\ rec[c] > 0) =>
            LET m == movements[rec[c]]
            IN  m.metrc_synced \/ Queued(m.tag_id, m.to_location, m.timestamp)

\* ---- C6 ----
\* C6: in the step in which the submission of a committed move fails, the
\* caller gets success, Registry and Ledger stay as they are (nothing rolled
\* back, no record marked synced) and one entry for the submission is
\* appended to the retry queue.
C6_FailedSyncIsQueued ==
    [][\A c \in Calls :
          (pc[c] = "posting" /\ response'[c] \in {"non200", "exception"})
          => /\ pc'[c] = "done"
             /\ result'[c].status = 200
             /\ packages' = packages
             /\ movements' = movements
             /\ rec'[c] = rec[c]
             /\ Len(pending_metrc_sync') = Len(pending_metrc_sync) + 1
             /\ SubSeq(pending_metrc_sync', 1, Len(pending_metrc_sync))
                    = pending_metrc_sync
             /\ LET e == pending_metrc_sync'[Len(pending_metrc_sync')]
                    m == movements[rec[c]]
                IN  /\ e.label = m.tag_id
                    /\ e.room = m.to_location
                    /\ e.time = m.timestamp]_vars

C6_Witness ==
    \E c, k \in Calls :
        /\ response[c] = "non200"
        /\ response[k] = "exception"
        /\ Len(pending_metrc_sync) = 2
        /\ packages["T1"].location = movements[Len(movements)].to_location

\* ---- C7 ----
\* C7: in every step a Registry row changes only together with the append
\* of the MovementRecord that describes the change, a MovementRecord is
\* appended only together with that Registry update, and a call that ends
\* with a storage failure leaves both tables as they were.
C7_RegistryAndLedgerTogether ==
    [][
       /\ \A tag \in DOMAIN packages :
             packages'[tag] # packages[tag] =>
                 /\ Len(movements') = Len(movements) + 1
                 /\ movements'[Len(movements')].tag_id = tag
       /\ Len(movements') # Len(movements) =>
             /\ Len(movements') = Len(movements) + 1
             /\ LET m == movements'[Len(movements')]
                IN  /\ m.tag_id \in DOMAIN packages
                    /\ packages'[m.tag_id] =
                           [location |-> m.to_location,
                            last_updated |-> m.timestamp, status |-> "Active"]
                    /\ packages[m.tag_id].location = m.from_location
       /\ \A c \in Calls :
             (Runs(c) /\ result'[c].kind \in {"storage", "rollback"}) =>
                 packages' = packages /\ movements' = movements
      ]_vars

C7_Witness ==
    \E c \in Calls :
        /\ result[c].kind = "rollback"
        /\ Len(movements) >= 1

\* ---- C8 ----
\* C8: the status told to the caller names the kind of failure: NotFound
\* 404, Conflict 409, InvalidArgument 400, StorageError 500.
C8_StatusNamesTheFailure ==
    \A c \in Calls :
        pc[c] = "done" =>
            /\ result[c].kind = "notfound" => result[c].status = 404
            /\ result[c].kind = "mismatch" => result[c].status = 409
            /\ result[c].kind = "missing" => result[c].status = 400
            /\ result[c].kind \in {"storage", "rollback"} => result[c].status = 500

\* ---- C9 ----
\* C9: when the broadcast of a call ends, every observer that was registered
\* at its start and is still registered and open has been sent the event,
\* and an observer whose send failed is no longer registered.
C9_EveryObserverServed ==
    [][\A c \in Calls :
          (pc[c] = "sending" /\ pc'[c] # "sending") =>
              LET w == iter[c].cur
                  served == iter[c].sent \cup (IF ws[w] = "open" THEN {w} ELSE {})
              IN  /\ \A o \in iter[c].start :
                        (o \in connected_clients' /\ ws'[o] = "open") => o \in served
                  /\ ws[w] # "open" => w \notin connected_clients']_vars

\* ---- C10 ----
\* C10: every move_package call that was received eventually returns to its
\* caller.
C10_EveryMoveReturns ==
    \A c \in Calls : (pc[c] = "received") ~> (pc[c] = "done")

\* ---- C11 ----
\* C11: of two submissions for records of the same unit, the one for the
\* record with the smaller id is attempted first.
C11_SubmissionsInCommitOrder ==
    \A i, j \in 1..Len(posted) :
        (i < j /\ posted[i].label = posted[j].label) => posted[i].rec < posted[j].rec

\* ---- C12 ----
\* C12: once the call that committed a record has finished, exactly one
\* submission has been attempted for that record.
C12_ExactlyOneSubmission ==
    \A c \in Calls :
        (pc[c] = "done" /\ rec[c] > 0) =>
            Cardinality({i \in 1..Len(posted) : posted[i].rec = rec[c]}) = 1

\* ---- C13 ----
\* C13: when a send of a broadcast completes, whatever observers registered
\* or deregistered meanwhile, the broadcast goes on: the call does not end
\* in failure, and if the broadcast is over every observer registered at its
\* start and still registered has been sent the event.
C13_RegistrationDuringBroadcast ==
    [][\A c \in Calls :
          (/\ pc[c] = "sending"
           /\ ws[iter[c].cur] = "open"
           /\ pc'[c] # "sending" \/ iter'[c].sent # iter[c].sent)
          => /\ pc'[c] = "done" => result'[c].status = 200
             /\ pc'[c] # "sending" =>
                   \A o \in iter[c].start \cap connected_clients' :
                       o \in iter[c].sent \cup {iter[c].cur}]_vars

\* ---- C14 ----
\* C14 (as claimed): the failure reported is the first violated of: tag_id
\* exists (NotFound), Registry location equals from_location (Conflict),
\* to_location non-empty (InvalidArgument).
C14_OrderAsClaimed ==
    [][\A c \in Calls :
          Runs(c) =>
              IF data[c].tag_id \notin DOMAIN packages
              THEN result'[c].kind = "notfound"
              ELSE IF packages[data[c].tag_id].location # data[c].from_location
              THEN result'[c].kind = "mismatch"
              ELSE data[c].to_location = "" => result'[c].kind = "missing"]_vars

\* C14 (amended): the failure raised is the first violated of: all three
\* fields non-empty (the missing-fields failure, status 400), tag_id exists
\* (the not-found failure), Registry location equals from_location (the
\* mismatch failure); a request that passes all three raises none of them.
C14_OrderInTheCode ==
    [][\A c \in Calls :
          Runs(c) =>
              IF \/ data[c].tag_id = ""
                 \/ data[c].from_location = ""
                 \/ data[c].to_location = ""
              THEN result'[c].kind = "missing" /\ result'[c].status = 400
              ELSE IF data[c].tag_id \notin DOMAIN packages
              THEN result'[c].kind = "notfound"
              ELSE IF packages[data[c].tag_id].location # data[c].from_location
              THEN result'[c].kind = "mismatch"
              ELSE result'[c].kind \notin {"missing", "notfound", "mismatch"}]_vars

C14_Witness ==
    \E c, k \in Calls :
        /\ pc[c] = "done" /\ pc[k] = "done"
        /\ movements = << >>
        /\ data[c].tag_id \notin DOMAIN packages
        /\ data[c].to_location = ""
        /\ result[c].kind = "missing"
        /\ data[k].tag_id \in DOMAIN packages
        /\ data[k].from_location # packages[data[k].tag_id].location
        /\ data[k].to_location = ""
        /\ result[k].kind = "missing"

\* ---- C15 ----
\* row id of mv is the committed record of a move of tag to room at time t
IsRecordOf(mv, id, tag, room, t) ==
    /\ id \in 1..Len(mv)
    /\ mv[id].tag_id = tag
    /\ mv[id].to_location = room
    /\ mv[id].timestamp = t

\* C15: a call that broadcasts or submits has committed its record; every
\* delivery to an observer, every submission and every retry-queue entry is
\* for a record that is in the Ledger; a move that fails before or during
\* the commit starts no broadcast, makes no submission and queues nothing.
C15_SideEffectsOnlyAfterCommit ==
    [][
       /\ \A c \in Calls :
             pc'[c] \in {"sending", "posting"} =>
                 /\ IsRecordOf(movements', rec'[c], data'[c].tag_id,
                               data'[c].to_location, timestamp'[c])
                 /\ movements'[rec'[c]].from_location = data'[c].from_location
       /\ \A c \in Calls :
             (pc[c] = "sending" /\ iter'[c] # iter[c] /\ ws[iter[c].cur] = "open") =>
                 IsRecordOf(movements, rec[c], data[c].tag_id,
                            data[c].to_location, timestamp[c])
       /\ \A i \in 1..Len(posted') :
             IsRecordOf(movements', posted'[i].rec, posted'[i].label,
                        posted'[i].room, posted'[i].time)
       /\ \A i \in 1..Len(pending_metrc_sync') :
             \E id \in 1..Len(movements) :
                 IsRecordOf(movements, id, pending_metrc_sync'[i].label,
                            pending_metrc_sync'[i].room, pending_metrc_sync'[i].time)
       /\ \A c \in Calls :
             (Runs(c) /\ rec'[c] = 0) =>
                 /\ pc'[c] = "done"
                 /\ iter'[c] = NoIter
                 /\ posted' = posted
                 /\ pending_metrc_sync' = pending_metrc_sync
      ]_vars

C15_Witness ==
    \E c, k \in Calls :
        /\ result[c].kind = "rollback"
        /\ result[k].status = 200
        /\ response[k] = "non200"
        /\ Len(posted) = 1
        /\ Len(pending_metrc_sync) = 1
        /\ \E w \in connected_clients : ws[w] = "open"

\* ---- C16 ----
\* C16: no step deletes or rewrites a MovementRecord; the synced flag only
\* goes from not-synced to synced; at most one record is appended per step,
\* with an id above every earlier id; a move that commits appends exactly
\* one record, the one for its request.
C16_LedgerAppendOnly ==
    [][
       /\ Len(movements') \in {Len(movements), Len(movements) + 1}
       /\ \A i \in 1..Len(movements) :
             /\ movements'[i].id = movements[i].id
             /\ movements'[i].tag_id = movements[i].tag_id
             /\ movements'[i].from_location = movements[i].from_location
             /\ movements'[i].to_location = movements[i].to_location
             /\ movements'[i].timestamp = movements[i].timestamp
             /\ movements[i].metrc_synced => movements'[i].metrc_synced
       /\ Len(movements') > Len(movements) =>
             /\ \A i \in 1..Len(movements) :
                   movements[i].id < movements'[Len(movements')].id
             /\ ~movements'[Len(movements')].metrc_synced
       /\ \A c \in Calls :
             (Runs(c) /\ rec'[c] > 0) =>
                 /\ Len(movements') = Len(movements) + 1
                 /\ rec'[c] = Len(movements')
                 /\ movements'[rec'[c]].tag_id = data[c].tag_id
                 /\ movements'[rec'[c]].from_location = data[c].from_location
                 /\ movements'[rec'[c]].to_location = data[c].to_location
      ]_vars

C16_Witness ==
    /\ Len(movements) = 2
    /\ movements[1].metrc_synced
    /\ ~movements[2].metrc_synced
    /\ movements[1].timestamp # movements[2].timestamp
    /\ \E c \in Calls : pc[c] = "posting"

\* ---- C17 ----
\* C17: a record is marked synced only if a submission made for that very
\* record returned success.
C17_SyncedOnlyIfSubmitted ==
    \A i \in 1..Len(movements) :
        movements[i].metrc_synced =>
            \E c \in Calls : rec[c] = i /\ response[c] = "200"

\* ---- C18 ----
\* C18: for every unit the from_location of each record equals the
\* to_location of the unit's previous record, and that of its first record
\* the location the unit was provisioned with.
C18_UnbrokenChain ==
    \A tag \in DOMAIN packages :
        \A i \in RowsOf(tag) :
            LET before == {j \in RowsOf(tag) : j < i}
            IN  movements[i].from_location =
                    IF before = {} THEN InitialLocation
                    ELSE movements[Max(before)].to_location

C18_Witness ==
    \E c, k \in Calls :
        /\ pc[c] = "sending" /\ pc[k] = "sending"
        /\ rec[c] = 1 /\ rec[k] = 2
        /\ movements[1].tag_id = movements[2].tag_id
        /\ movements[1].to_location # movements[1].from_location
        /\ movements[2].from_location = movements[1].to_location

====
